---- MODULE Spec2Model ----
(***************************************************************************)
(* Model of src/compass.py: the MedicalChatbot retrieval-augmented         *)
(* question-answering pipeline (greeting short-circuit, retrieval,         *)
(* selection, synthesis with citation mapping) and the chat-input handler  *)
(* that drives it from the session's message list.                         *)
(*                                                                         *)
(* A Python str is modelled as a sequence of one-character strings, so     *)
(* that normalisation, substring search, concatenation and slicing are     *)
(* computed character by character.  An Optional value is a record         *)
(* [is_none, val].                                                         *)
(***************************************************************************)
EXTENDS Integers, Sequences, FiniteSets, TLC

\* ------------------------------------------------------------------------
\* Bounds of the model
\* ------------------------------------------------------------------------
\* most hits the search backend returns in one call (at most top_k = 8)
MaxHits == 4
\* most raw citations the generative backend returns in one response
MaxCites == 2
\* most entries of st.session_state.messages
MaxMessages == 3

\* ------------------------------------------------------------------------
\* Python values
\* ------------------------------------------------------------------------
None == [is_none |-> TRUE, val |-> <<>>]
Some(x) == [is_none |-> FALSE, val |-> x]
\* truth value of an Optional list: None and the empty list are falsy
Truthy(o) == ~o.is_none /\ o.val # <<>>

UpperChars ==
    <<"A","B","C","D","E","F","G","H","I","J","K","L","M","N","O","P","Q","R","S","T","U","V","W","X","Y","Z">>
LowerChars ==
    <<"a","b","c","d","e","f","g","h","i","j","k","l","m","n","o","p","q","r","s","t","u","v","w","x","y","z">>
DigitChars ==
    <<"0","1","2","3","4","5","6","7","8","9">>
SpaceChars == {" ", "\n", "\t"}

Range(s) == {s[i] : i \in DOMAIN s}
IndexOf(seq, x) == CHOOSE i \in DOMAIN seq : seq[i] = x

\* str.isalnum / str.isspace on one character
isalnum(ch) == ch \in Range(UpperChars) \cup Range(LowerChars) \cup Range(DigitChars)
isspace(ch) == ch \in SpaceChars

\* str.lower / str.upper on one character
lower_ch(ch) == IF ch \in Range(UpperChars) THEN LowerChars[IndexOf(UpperChars, ch)] ELSE ch
upper_ch(ch) == IF ch \in Range(LowerChars) THEN UpperChars[IndexOf(LowerChars, ch)] ELSE ch

\* str.lower()
str_lower(s) == [i \in DOMAIN s |-> lower_ch(s[i])]

\* str.capitalize(): first character upper-cased, the rest lower-cased
str_capitalize(s) == [i \in DOMAIN s |-> IF i = 1 THEN upper_ch(s[i]) ELSE lower_ch(s[i])]

\* str.strip(): drop leading and trailing whitespace
RECURSIVE lstrip(_)
lstrip(s) == IF s # <<>> /\ isspace(Head(s)) THEN lstrip(Tail(s)) ELSE s
RECURSIVE rstrip(_)
rstrip(s) == IF s # <<>> /\ isspace(s[Len(s)]) THEN rstrip(SubSeq(s, 1, Len(s) - 1)) ELSE s
str_strip(s) == rstrip(lstrip(s))

\* the `sub in s` test on strings
str_contains(s, sub) ==
    \E i \in 1..(Len(s) - Len(sub) + 1) : SubSeq(s, i, i + Len(sub) - 1) = sub

\* sep.join(parts)
RECURSIVE str_join(_, _)
str_join(sep, parts) ==
    IF parts = <<>> THEN <<>>
    ELSE IF Len(parts) = 1 THEN parts[1]
    ELSE parts[1] \o sep \o str_join(sep, Tail(parts))

\* str(n) for a natural number n
RECURSIVE str_of_nat(_)
str_of_nat(n) ==
    IF n < 10 THEN <<DigitChars[n + 1]>>
    ELSE str_of_nat(n \div 10) \o <<DigitChars[(n % 10) + 1]>>

\* Python slice index normalisation for s[a:b] on a sequence of length n:
\* a negative index counts from the end, then the index is clamped to [0, n]
slice_index(i, n) ==
    LET j == IF i < 0 THEN i + n ELSE i
    IN  IF j < 0 THEN 0 ELSE IF j > n THEN n ELSE j

\* s[a:b]
py_slice(s, a, b) ==
    LET lo == slice_index(a, Len(s))
        hi == slice_index(b, Len(s))
    IN  IF lo < hi THEN SubSeq(s, lo + 1, hi) ELSE <<>>

\* s[:b]
py_prefix(s, b) == py_slice(s, 0, b)

\* ------------------------------------------------------------------------
\* Program constants
\* ------------------------------------------------------------------------
GreetingAnswer ==
    <<"H","e","l","l","o","!"," ","H","o","w"," ","c","a","n"," ","I"," ","h","e","l","p"," ","w","i","t","h"," ","y","o","u","r"," ","m","e","d","i","c","a","l"," ","q","u","e","s","t","i","o","n","s"," ","t","o","d","a","y","?">>
EmptySelectionAnswer ==
    <<"I","'","m"," ","s","o","r","r","y",","," ","I"," ","c","o","u","l","d","n","'","t"," ","f","i","n","d"," ","a","n","y"," ","r","e","l","e","v","a","n","t"," ","m","e","d","i","c","a","l"," ","i","n","f","o","r","m","a","t","i","o","n","."," ","P","l","e","a","s","e"," ","c","o","n","s","i","d","e","r"," ","c","o","n","s","u","l","t","i","n","g"," ","a"," ","h","e","a","l","t","h","c","a","r","e"," ","p","r","o","f","e","s","s","i","o","n","a","l"," ","f","o","r"," ","p","e","r","s","o","n","a","l","i","z","e","d"," ","a","d","v","i","c","e",".">>
EmptyRetrievalAnswer ==
    <<"I","'","m"," ","s","o","r","r","y",","," ","I"," ","c","o","u","l","d","n","'","t"," ","f","i","n","d"," ","a","n","y"," ","r","e","l","e","v","a","n","t"," ","m","e","d","i","c","a","l"," ","i","n","f","o","r","m","a","t","i","o","n"," ","a","b","o","u","t"," ","t","h","a","t","."," ","P","l","e","a","s","e"," ","t","r","y"," ","r","e","p","h","r","a","s","i","n","g"," ","y","o","u","r"," ","q","u","e","s","t","i","o","n",".">>
MonitoringSuffix ==
    <<" ","F","o","c","u","s"," ","o","n"," ","m","o","n","i","t","o","r","i","n","g"," ","p","a","r","a","m","e","t","e","r","s"," ","o","n","l","y",".">>
MonitoringKeyword ==
    <<"m","o","n","i","t","o","r","i","n","g">>
greetings ==
    { <<"h","i">>,
      <<"h","e","l","l","o">>,
      <<"h","e","y">>,
      <<"g","o","o","d"," ","m","o","r","n","i","n","g">>,
      <<"g","o","o","d"," ","a","f","t","e","r","n","o","o","n">>,
      <<"g","o","o","d"," ","e","v","e","n","i","n","g">> }
\* chat: get_relevant_chunks(enhanced_query, limit=8)
RetrievalLimit == 8
\* chat: rerank_chunks(query, retrieved_docs, top_n=3)
TopN == 3
\* self.index_name
index_name == "childrens_hospital_index"
RoleUser == <<"u","s","e","r">>
RoleAssistant == <<"a","s","s","i","s","t","a","n","t">>

\* ------------------------------------------------------------------------
\* MedicalChatbot: pure parts
\* ------------------------------------------------------------------------
\* is_simple_greeting(query)
\* cleaned that does not lower-case
cleaned_CaseKept(query) ==
    str_strip(SelectSeq(query, LAMBDA ch : isalnum(ch) \/ isspace(ch)))
cleaned(query) ==
    str_lower(str_strip(SelectSeq(query, LAMBDA ch : isalnum(ch) \/ isspace(ch))))
is_simple_greeting(query) == cleaned(query) \in greetings

\* enhance_query that looks for the keyword in the query as typed
enhance_query_CaseSensitive(query) ==
    IF str_contains(query, MonitoringKeyword)
    THEN query \o MonitoringSuffix
    ELSE query

\* chat: the query enhancement before retrieval
enhance_query(query) ==
    IF str_contains(str_lower(query), MonitoringKeyword)
    THEN query \o MonitoringSuffix
    ELSE query

\* hit.content.get("text", "")
content_get_text(content) ==
    IF "text" \in DOMAIN content THEN content.text ELSE ""

\* get_relevant_chunks: the documents built from search_results.hits
\* doc_title that numbers the hits from one
doc_title_FromOne(idx) == <<"d","o","c","_">> \o str_of_nat(idx + 1)
doc_title(idx) == <<"d","o","c","_">> \o str_of_nat(idx)
build_documents(hits) ==
    IF Truthy(hits)
    THEN [i \in DOMAIN hits.val |->
            [title |-> doc_title(i - 1),
             snippet |-> content_get_text(hits.val[i].content)]]
    ELSE <<>>

\* get_relevant_chunks(query, limit) for one behaviour of the search backend:
\* what it returns; a backend error is caught and gives the empty list
get_relevant_chunks(outcome) ==
    IF outcome.raises THEN <<>> ELSE build_documents(outcome.hits)

\* rerank_chunks that passes every document through, untruncated
rerank_chunks_NoTruncation(q, documents, top_n) == documents

\* rerank_chunks that slices documents[top_n:] instead of documents[:top_n]
rerank_chunks_TailSlice(q, documents, top_n) ==
    IF documents # <<>> THEN py_slice(documents, top_n, Len(documents)) ELSE <<>>

\* rerank_chunks(query, documents, top_n)
rerank_chunks(q, documents, top_n) ==
    IF documents # <<>> THEN py_prefix(documents, top_n) ELSE <<>>

\* answer_with_chat: the combined prompt
\* history_line that keeps the role as stored, not capitalized
history_line_RoleAsStored(msg) == msg.role \o <<":"," ">> \o msg.content
history_line(msg) == str_capitalize(msg.role) \o <<":"," ">> \o msg.content
combined_query(q, hist) ==
    IF Truthy(hist)
    THEN str_join(<<"\n">>, [i \in DOMAIN hist.val |-> history_line(hist.val[i])])
         \o <<"\n","U","s","e","r",":"," ">> \o q
    ELSE q

\* answer_with_chat: the structured citations built from response.citations
\* structured_citation that takes the end offset as inclusive
structured_citation_InclusiveEnd(answer, cite) ==
    [text |-> py_slice(answer, cite.start, cite.end + 1),
     doc_ids |-> cite.document_ids]
structured_citation(answer, cite) ==
    [text |-> py_slice(answer, cite.start, cite.end),
     doc_ids |-> cite.document_ids]
map_citations(answer, citations) ==
    IF ~citations.is_none
    THEN [i \in DOMAIN citations.val |-> structured_citation(answer, citations.val[i])]
    ELSE <<>>

\* the dict that chat returns
PipelineResult(q, answer, citations) ==
    [query |-> q, answer |-> answer, citations |-> citations]

\* ------------------------------------------------------------------------
\* Inputs
\* ------------------------------------------------------------------------
\* prompts typed into st.chat_input (never empty: an empty prompt is falsy)
Prompts ==
    { <<"H","i","!">>,
      <<"f","l","u">>,
      <<"M","o","n","i","t","o","r","i","n","g">> }

\* most edits (one letter upper-cased, one punctuation character inserted,
\* one whitespace character put in front or behind) that turn a greeting
\* phrase into a query
MaxEdits == 1
PunctChars == {"!"}
PadChars == {" "}

\* the strings one edit away from s
EditsOf(s) ==
    { [s EXCEPT ![i] = upper_ch(s[i])] : i \in DOMAIN s }
    \cup { SubSeq(s, 1, k) \o <<p>> \o SubSeq(s, k + 1, Len(s)) :
             k \in 0..Len(s), p \in PunctChars }
    \cup { <<w>> \o s : w \in PadChars }
    \cup { s \o <<w>> : w \in PadChars }

\* the strings at most n edits away from a string of S
RECURSIVE VariantsWithin(_, _)
VariantsWithin(S, n) ==
    IF n = 0 THEN S
    ELSE VariantsWithin(S \cup UNION { EditsOf(s) : s \in S }, n - 1)

\* variants that take several edits at once
SampleGreetings ==
    { <<" "," ","H","i","!","!"," ">>,
      <<"H","E","L","L","O">>,
      <<"\t","H","e","y","?","\n">>,
      <<"G","o","o","d"," ","m","o","r","n","i","n","g","!">>,
      <<"G",".","o",".","o",".","d"," ","E","v","e","n","i","n","g">>,
      <<".",".",".","g","o","o","d"," ","A","F","T","E","R","N","O","O","N",".",".",".">> }

\* case, punctuation and padding variants of the greeting phrases
GreetingVariants == VariantsWithin(greetings, MaxEdits) \cup SampleGreetings

\* queries that are no greeting variants: near misses of greetings and
\* queries with and without the monitoring keyword
OtherQueries ==
    { <<>>,
      <<"h"," ","i">>,
      <<"h","i","i">>,
      <<"h","i"," ","t","h","e","r","e">>,
      <<"g","o","o","d"," "," ","e","v","e","n","i","n","g">>,
      <<"m","o","n","i","t","o","r">>,
      <<"M","O","N","I","T","O","R","I","N","G">>,
      <<"f","l","u"," ","m","o","n","i","t","o","r","i","n","g","?">>,
      <<"m","o","n","i","t","o","r","i","n","g"," ","F","o","c","u","s"," ","o","n"," ","m","o","n","i","t","o","r","i","n","g"," ","p","a","r","a","m","e","t","e","r","s"," ","o","n","l","y",".">> }


\* histories a direct caller of chat may pass
Histories ==
    { None,
      Some(<<>>),
      Some(<< [role |-> RoleUser, content |-> <<"f","l","u">>],
              [role |-> RoleAssistant, content |-> <<"o","k">>] >>) }

\* the i-th hit of a search response; the second hit has no "text" key
hit_at(i) ==
    IF i = 2 THEN [content |-> [page |-> "p2"]]
    ELSE [content |-> [text |-> IF i % 2 = 1 THEN "chunk a" ELSE "chunk b"]]
hits_of(n) == [i \in 1..n |-> hit_at(i)]

\* behaviours of compass_client.search_chunks: it raises, or it returns a
\* response whose hits are None or a list of at most MaxHits hits
SearchOutcomes ==
    { [raises |-> TRUE, hits |-> None], [raises |-> FALSE, hits |-> None] }
    \cup { [raises |-> FALSE, hits |-> Some(hits_of(n))] : n \in 0..MaxHits }

\* the answer texts of a generative response
AnswerTexts == { <<"F","l","u">>, <<"o","k">> }

\* representative raw citations for an answer of length 3: within bounds
\* (one repeated, one starting before its predecessor), negative start,
\* end past the text, start after end, negative end
RawCitationRun ==
    << [start |-> 1, end |-> 2, document_ids |-> <<"doc_1", "doc_2">>],
       [start |-> 1, end |-> 2, document_ids |-> <<"doc_1", "doc_2">>],
       [start |-> 0, end |-> 3, document_ids |-> <<"doc_0">>],
       [start |-> -1, end |-> 3, document_ids |-> <<"doc_0">>],
       [start |-> 0, end |-> 5, document_ids |-> <<"doc_2">>],
       [start |-> 2, end |-> 1, document_ids |-> <<"doc_1">>],
       [start |-> 0, end |-> -1, document_ids |-> <<"doc_0">>] >>

\* citation lists: the contiguous runs of RawCitationRun of at most
\* MaxCites entries (the empty list included)
CitationLists ==
    { SubSeq(RawCitationRun, w[1], w[1] + w[2] - 1) :
        w \in { v \in (1..Len(RawCitationRun)) \X (0..MaxCites) :
                   v[1] + v[2] - 1 <= Len(RawCitationRun) } }

\* behaviours of co.chat: it raises, or it returns a response whose
\* citations are None or a list
ChatOutcomes ==
    { [raises |-> TRUE, text |-> <<>>, citations |-> None] }
    \cup { [raises |-> FALSE, text |-> t, citations |-> None] : t \in AnswerTexts }
    \cup { [raises |-> FALSE, text |-> t, citations |-> Some(c)] :
             t \in AnswerTexts, c \in CitationLists }

\* answer_with_chat has no response (yet)
NoResponse == [raises |-> FALSE, text |-> <<>>, citations |-> None]

\* the (query, history) pairs a direct caller of chat passes: every history
\* with the prompts and the other queries, the default history with the
\* greeting variants
DirectCalls ==
    ((Prompts \cup OtherQueries) \X Histories) \cup (GreetingVariants \X {None})

\* ------------------------------------------------------------------------
\* State
\* ------------------------------------------------------------------------
VARIABLES
    chatbot,         \* the fields of st.session_state.chatbot
    messages,        \* st.session_state.messages
    st_errors,       \* the st.error reports of the current script run
    caller,          \* who called chat: "ui" (chat-input handler), "api", "none"
    pc,              \* position of the chat call
    query,           \* chat: query
    history,         \* chat: history
    enhanced_query,  \* chat: enhanced_query
    retrieved_docs,  \* chat: retrieved_docs
    top_docs,        \* chat: top_docs
    search_log,      \* calls of compass_client.search_chunks in this chat call
    synth_log,       \* calls of answer_with_chat / co.chat in this chat call
    response,        \* answer_with_chat: response
    returned         \* the results this chat call has returned

vars == << chatbot, messages, st_errors, caller, pc, query, history,
           enhanced_query, retrieved_docs, top_docs, search_log, synth_log,
           response, returned >>

locals == << query, history, enhanced_query, retrieved_docs, top_docs,
             search_log, synth_log, response, returned >>

ReturnStates ==
    {"GreetingShortCircuit", "EmptyRetrievalFallback", "EmptySelectionFallback", "Done"}
EndStates == ReturnStates \cup {"Raised"}

Init ==
    /\ chatbot = [compass_client |-> "CompassClient", co |-> "CohereClient",
                  index_name |-> index_name]
    /\ messages = <<>>
    /\ st_errors = {}
    /\ caller = "none"
    /\ pc = "Idle"
    /\ query = <<>>
    /\ history = None
    /\ enhanced_query = <<>>
    /\ retrieved_docs = <<>>
    /\ top_docs = <<>>
    /\ search_log = <<>>
    /\ synth_log = <<>>
    /\ response = NoResponse
    /\ returned = <<>>

\* a new call frame of chat(q, h)
EnterChat(q, h) ==
    /\ query' = q
    /\ history' = h
    /\ enhanced_query' = <<>>
    /\ retrieved_docs' = <<>>
    /\ top_docs' = <<>>
    /\ search_log' = <<>>
    /\ synth_log' = <<>>
    /\ response' = NoResponse
    /\ returned' = <<>>
    /\ pc' = "Start"

\* the call frame of chat is gone once its caller has taken the outcome
LeaveChat ==
    /\ query' = <<>>
    /\ history' = None
    /\ enhanced_query' = <<>>
    /\ retrieved_docs' = <<>>
    /\ top_docs' = <<>>
    /\ search_log' = <<>>
    /\ synth_log' = <<>>
    /\ response' = NoResponse
    /\ returned' = <<>>
    /\ pc' = "Idle"

\* ------------------------------------------------------------------------
\* The chat-input handler and the other callers
\* ------------------------------------------------------------------------
\* the history list built from the session messages
build_history(msgs) ==
    LET kept == SelectSeq(msgs, LAMBDA m : m.role \in {RoleUser, RoleAssistant})
    IN  [i \in DOMAIN kept |-> [role |-> kept[i].role, content |-> kept[i].content]]

\* Submit that builds the history before it appends the prompt
Submit_HistoryFirst(prompt) ==
    /\ pc = "Idle"
    /\ Len(messages) + 2 <= MaxMessages
    /\ messages' = Append(messages, [role |-> RoleUser, content |-> prompt])
    /\ st_errors' = {}
    /\ caller' = "ui"
    /\ EnterChat(prompt, Some(build_history(messages)))
    /\ UNCHANGED chatbot

\* chat input: append the prompt, build the history, call chat
Submit(prompt) ==
    /\ pc = "Idle"
    /\ Len(messages) + 2 <= MaxMessages
    /\ messages' = Append(messages, [role |-> RoleUser, content |-> prompt])
    /\ st_errors' = {}
    /\ caller' = "ui"
    /\ EnterChat(prompt, Some(build_history(messages')))
    /\ UNCHANGED chatbot

\* HandlerFinish that takes the unanswered prompt back out after an error
HandlerFinish_DropsFailedPrompt ==
    /\ caller = "ui"
    /\ pc \in EndStates
    /\ IF pc = "Raised"
       THEN /\ st_errors' = st_errors \cup {"processing"}
            /\ messages' = SubSeq(messages, 1, Len(messages) - 1)
       ELSE /\ messages' = Append(messages,
                               [role |-> RoleAssistant,
                                content |-> returned[1].answer,
                                citations |-> returned[1].citations])
            /\ UNCHANGED st_errors
    /\ caller' = "none"
    /\ LeaveChat
    /\ UNCHANGED chatbot

\* chat input: chat has returned or raised
HandlerFinish ==
    /\ caller = "ui"
    /\ pc \in EndStates
    /\ IF pc = "Raised"
       THEN /\ st_errors' = st_errors \cup {"processing"}
            /\ UNCHANGED messages
       ELSE /\ messages' = Append(messages,
                               [role |-> RoleAssistant,
                                content |-> returned[1].answer,
                                citations |-> returned[1].citations])
            /\ UNCHANGED st_errors
    /\ caller' = "none"
    /\ LeaveChat
    /\ UNCHANGED chatbot

\* sidebar: Clear Chat
ClearChat ==
    /\ pc = "Idle"
    /\ messages' = <<>>
    /\ st_errors' = {}
    /\ UNCHANGED << chatbot, caller, pc, locals >>

\* chat(query, history) called directly, as the library entry point, by a
\* program that has no chat session of its own
DirectCall ==
    /\ pc = "Idle"
    /\ messages = <<>>
    /\ caller' = "api"
    /\ \E c \in DirectCalls : EnterChat(c[1], c[2])
    /\ UNCHANGED << chatbot, messages, st_errors >>

\* the direct caller takes the outcome
DirectFinish ==
    /\ caller = "api"
    /\ pc \in EndStates
    /\ caller' = "none"
    /\ LeaveChat
    /\ UNCHANGED << chatbot, messages, st_errors >>

\* ------------------------------------------------------------------------
\* MedicalChatbot.chat, one action per pipeline state
\* ------------------------------------------------------------------------
\* ChatStart without the greeting check: every query goes on to retrieval
ChatStart_NoShortCircuit ==
    /\ pc = "Start"
    /\ pc' = "Retrieve"
    /\ UNCHANGED << chatbot, messages, st_errors, caller, query, history,
                    enhanced_query, retrieved_docs, top_docs, search_log, synth_log,
                    response, returned >>

\* Start: the greeting short-circuit
ChatStart ==
    /\ pc = "Start"
    /\ IF is_simple_greeting(query)
       THEN /\ returned' = Append(returned, PipelineResult(query, GreetingAnswer, <<>>))
            /\ pc' = "GreetingShortCircuit"
       ELSE /\ pc' = "Retrieve"
            /\ UNCHANGED returned
    /\ UNCHANGED << chatbot, messages, st_errors, caller, query, history,
                    enhanced_query, retrieved_docs, top_docs, search_log, synth_log,
                    response >>

\* ChatRetrieve with no try/except around the search call: a backend error
\* leaves chat as an exception
ChatRetrieve_Propagates ==
    /\ pc = "Retrieve"
    /\ \E outcome \in SearchOutcomes :
        LET enhanced == enhance_query(query)
            docs == get_relevant_chunks(outcome)
        IN  /\ enhanced_query' = enhanced
            /\ search_log' = Append(search_log,
                                    [index_name |-> chatbot.index_name,
                                     query |-> enhanced,
                                     top_k |-> RetrievalLimit,
                                     raised |-> outcome.raises])
            /\ UNCHANGED st_errors
            /\ retrieved_docs' = docs
            /\ IF outcome.raises
               THEN /\ pc' = "Raised"
                    /\ UNCHANGED returned
               ELSE IF docs = <<>>
               THEN /\ returned' = Append(returned,
                                          PipelineResult(query, EmptyRetrievalAnswer, <<>>))
                    /\ pc' = "EmptyRetrievalFallback"
               ELSE /\ pc' = "Select"
                    /\ UNCHANGED returned
    /\ UNCHANGED << chatbot, messages, caller, query, history, top_docs, synth_log,
                    response >>

\* ChatRetrieve that searches a second time when the first search gave nothing
ChatRetrieve_Retries ==
    /\ pc = "Retrieve"
    /\ \E outcome \in SearchOutcomes :
        LET enhanced == enhance_query(query)
            docs == get_relevant_chunks(outcome)
        IN  /\ enhanced_query' = enhanced
            /\ search_log' = Append(search_log,
                                    [index_name |-> chatbot.index_name,
                                     query |-> enhanced,
                                     top_k |-> RetrievalLimit,
                                     raised |-> outcome.raises])
            /\ st_errors' = IF outcome.raises THEN st_errors \cup {"retrieval"}
                            ELSE st_errors
            /\ retrieved_docs' = docs
            /\ IF docs = <<>> /\ search_log = <<>>
               THEN /\ pc' = "Retrieve"
                    /\ UNCHANGED returned
               ELSE IF docs = <<>>
               THEN /\ returned' = Append(returned,
                                          PipelineResult(query, EmptyRetrievalAnswer, <<>>))
                    /\ pc' = "EmptyRetrievalFallback"
               ELSE /\ pc' = "Select"
                    /\ UNCHANGED returned
    /\ UNCHANGED << chatbot, messages, caller, query, history, top_docs, synth_log,
                    response >>

\* ChatRetrieve whose empty-retrieval return carries the empty-selection text
ChatRetrieve_MixedUpFallback ==
    /\ pc = "Retrieve"
    /\ \E outcome \in SearchOutcomes :
        LET enhanced == enhance_query(query)
            docs == get_relevant_chunks(outcome)
        IN  /\ enhanced_query' = enhanced
            /\ search_log' = Append(search_log,
                                    [index_name |-> chatbot.index_name,
                                     query |-> enhanced,
                                     top_k |-> RetrievalLimit,
                                     raised |-> outcome.raises])
            /\ st_errors' = IF outcome.raises THEN st_errors \cup {"retrieval"}
                            ELSE st_errors
            /\ retrieved_docs' = docs
            /\ IF docs = <<>>
               THEN /\ returned' = Append(returned,
                                          PipelineResult(query, EmptySelectionAnswer, <<>>))
                    /\ pc' = "EmptyRetrievalFallback"
               ELSE /\ pc' = "Select"
                    /\ UNCHANGED returned
    /\ UNCHANGED << chatbot, messages, caller, query, history, top_docs, synth_log,
                    response >>

\* Retrieve: enhance the query, call get_relevant_chunks, check for no documents
ChatRetrieve ==
    /\ pc = "Retrieve"
    /\ \E outcome \in SearchOutcomes :
        LET enhanced == enhance_query(query)
            docs == get_relevant_chunks(outcome)
        IN  /\ enhanced_query' = enhanced
            /\ search_log' = Append(search_log,
                                    [index_name |-> chatbot.index_name,
                                     query |-> enhanced,
                                     top_k |-> RetrievalLimit,
                                     raised |-> outcome.raises])
            /\ st_errors' = IF outcome.raises THEN st_errors \cup {"retrieval"}
                            ELSE st_errors
            /\ retrieved_docs' = docs
            /\ IF docs = <<>>
               THEN /\ returned' = Append(returned,
                                          PipelineResult(query, EmptyRetrievalAnswer, <<>>))
                    /\ pc' = "EmptyRetrievalFallback"
               ELSE /\ pc' = "Select"
                    /\ UNCHANGED returned
    /\ UNCHANGED << chatbot, messages, caller, query, history, top_docs, synth_log,
                    response >>

\* Select: rerank_chunks with top_n = 3, check for no documents
ChatSelect ==
    /\ pc = "Select"
    /\ LET docs == rerank_chunks(query, retrieved_docs, TopN)
       IN  /\ top_docs' = docs
           /\ IF docs = <<>>
              THEN /\ returned' = Append(returned,
                                         PipelineResult(query, EmptySelectionAnswer, <<>>))
                   /\ pc' = "EmptySelectionFallback"
              ELSE /\ pc' = "Synthesize"
                   /\ UNCHANGED returned
    /\ UNCHANGED << chatbot, messages, st_errors, caller, query, history,
                    enhanced_query, retrieved_docs, search_log, synth_log, response >>

\* ChatSynthesize that catches a generative-backend error and returns the
\* empty-retrieval fallback instead
ChatSynthesize_Swallows ==
    /\ pc = "Synthesize"
    /\ \E outcome \in ChatOutcomes :
        /\ synth_log' = Append(synth_log,
                               [query |-> query,
                                history |-> history,
                                message |-> combined_query(query, history),
                                documents |-> top_docs,
                                raised |-> outcome.raises])
        /\ IF outcome.raises
           THEN /\ returned' = Append(returned,
                                      PipelineResult(query, EmptyRetrievalAnswer, <<>>))
                /\ pc' = "Done"
                /\ UNCHANGED response
           ELSE /\ response' = outcome
                /\ returned' = Append(returned,
                                      PipelineResult(query, outcome.text,
                                          map_citations(outcome.text, outcome.citations)))
                /\ pc' = "Done"
    /\ UNCHANGED << chatbot, messages, st_errors, caller, query, history,
                    enhanced_query, retrieved_docs, top_docs, search_log >>

\* ChatSynthesize that hands the enhanced query to answer_with_chat and
\* to the result
ChatSynthesize_EnhancedQuery ==
    /\ pc = "Synthesize"
    /\ \E outcome \in ChatOutcomes :
        /\ synth_log' = Append(synth_log,
                               [query |-> enhanced_query,
                                history |-> history,
                                message |-> combined_query(enhanced_query, history),
                                documents |-> top_docs,
                                raised |-> outcome.raises])
        /\ IF outcome.raises
           THEN /\ pc' = "Raised"
                /\ UNCHANGED << response, returned >>
           ELSE /\ response' = outcome
                /\ returned' = Append(returned,
                                      PipelineResult(enhanced_query, outcome.text,
                                          map_citations(outcome.text, outcome.citations)))
                /\ pc' = "Done"
    /\ UNCHANGED << chatbot, messages, st_errors, caller, query, history,
                    enhanced_query, retrieved_docs, top_docs, search_log >>

\* ChatSynthesize that appends the query to the history list it was given
ChatSynthesize_AppendsToHistory ==
    /\ pc = "Synthesize"
    /\ \E outcome \in ChatOutcomes :
        /\ synth_log' = Append(synth_log,
                               [query |-> query,
                                history |-> history,
                                message |-> combined_query(query, history),
                                documents |-> top_docs,
                                raised |-> outcome.raises])
        /\ IF outcome.raises
           THEN /\ pc' = "Raised"
                /\ UNCHANGED << response, returned >>
           ELSE /\ response' = outcome
                /\ returned' = Append(returned,
                                      PipelineResult(query, outcome.text,
                                          map_citations(outcome.text, outcome.citations)))
                /\ pc' = "Done"
    /\ history' = Some((IF history.is_none THEN <<>> ELSE history.val)
                       \o << [role |-> RoleUser, content |-> query] >>)
    /\ UNCHANGED << chatbot, messages, st_errors, caller, query,
                    enhanced_query, retrieved_docs, top_docs, search_log >>

\* Synthesize: answer_with_chat(query, top_docs, history), then the result
ChatSynthesize ==
    /\ pc = "Synthesize"
    /\ \E outcome \in ChatOutcomes :
        /\ synth_log' = Append(synth_log,
                               [query |-> query,
                                history |-> history,
                                message |-> combined_query(query, history),
                                documents |-> top_docs,
                                raised |-> outcome.raises])
        /\ IF outcome.raises
           THEN /\ pc' = "Raised"
                /\ UNCHANGED << response, returned >>
           ELSE /\ response' = outcome
                /\ returned' = Append(returned,
                                      PipelineResult(query, outcome.text,
                                          map_citations(outcome.text, outcome.citations)))
                /\ pc' = "Done"
    /\ UNCHANGED << chatbot, messages, st_errors, caller, query, history,
                    enhanced_query, retrieved_docs, top_docs, search_log >>

Next ==
    \/ \E prompt \in Prompts : Submit(prompt)
    \/ HandlerFinish
    \/ ClearChat
    \/ DirectCall
    \/ DirectFinish
    \/ ChatStart
    \/ ChatRetrieve
    \/ ChatSelect
    \/ ChatSynthesize

Spec == Init /\ [][Next]_vars

TypeOK ==
    /\ pc \in {"Idle", "Start", "Retrieve", "Select", "Synthesize"} \cup EndStates
    /\ caller \in {"none", "ui", "api"}
    /\ Len(messages) <= MaxMessages
    /\ Len(returned) <= 1

\* ------------------------------------------------------------------------
\* Properties
\* ------------------------------------------------------------------------
InCall == pc # "Idle"
search_failed == \E i \in DOMAIN search_log : search_log[i].raised
synth_failed == \E i \in DOMAIN synth_log : synth_log[i].raised
CannedAnswers == {GreetingAnswer, EmptyRetrievalAnswer, EmptySelectionAnswer}

\* C1: a chat call whose query is_simple_greeting classifies as a greeting
\* never calls the search backend or the generative backend, goes from Start
\* only to GreetingShortCircuit, and there has returned exactly the canned
\* greeting answer with an empty citation list, whatever the history is.
C1_GreetingShortCircuits ==
    (InCall /\ is_simple_greeting(query)) =>
        /\ search_log = <<>>
        /\ synth_log = <<>>
        /\ pc \in {"Start", "GreetingShortCircuit"}
        /\ pc = "GreetingShortCircuit" =>
               returned = << [query |-> query, answer |-> GreetingAnswer,
                              citations |-> <<>>] >>

\* a greeting in mixed case with punctuation, called with a non-empty history,
\* has short-circuited
C1_Witness ==
    /\ pc = "GreetingShortCircuit"
    /\ query = <<"H","i","!">>
    /\ Truthy(history)
    /\ returned # <<>>

\* C2: when the search backend raises during get_relevant_chunks, the error
\* does not leave chat: get_relevant_chunks gives the empty list and chat
\* returns the "couldn't find any relevant medical information about that"
\* fallback with empty citations, without calling the generative backend.
C2_RetrievalErrorFallsBack ==
    search_failed =>
        /\ pc = "EmptyRetrievalFallback"
        /\ retrieved_docs = <<>>
        /\ synth_log = <<>>
        /\ returned = << [query |-> query, answer |-> EmptyRetrievalAnswer,
                          citations |-> <<>>] >>

\* a chat call whose search call raised has returned
C2_Witness ==
    /\ pc = "EmptyRetrievalFallback"
    /\ Len(search_log) = 1
    /\ search_log[1].raised
    /\ "retrieval" \in st_errors

\* C3: when the generative backend raises, chat ends by raising: it returns
\* no result (so none with a canned answer), and the chat-input handler then
\* reports a processing error and appends no assistant message.
C3_SynthesisErrorState ==
    synth_failed =>
        /\ pc = "Raised"
        /\ returned = <<>>
C3_SynthesisErrorHandled ==
    (pc = "Raised" /\ caller = "ui") =>
        /\ messages' = messages
        /\ "processing" \in st_errors'
        /\ pc' = "Idle"
C3_SynthesisErrorSurfaces ==
    /\ [](C3_SynthesisErrorState /\ \A i \in DOMAIN returned :
              synth_failed => returned[i].answer \notin CannedAnswers)
    /\ [][C3_SynthesisErrorHandled]_vars

\* the handler has reported a failed synthesis: the last message is still the
\* user's prompt
C3_Witness ==
    /\ pc = "Idle"
    /\ "processing" \in st_errors
    /\ messages # <<>>
    /\ messages[Len(messages)].role = RoleUser

\* the raw citation list of the response, an absent list read as empty
raw_citations == IF response.citations.is_none THEN <<>> ELSE response.citations.val
Min(a, b) == IF a <= b THEN a ELSE b
Clamp(i, n) == IF i < 0 THEN 0 ELSE IF i > n THEN n ELSE i
\* 0 <= start <= end <= n
InBounds(cite, n) == 0 <= cite.start /\ cite.start <= cite.end /\ cite.end <= n
\* the text between two offsets, both clamped into [0, Len(text)]
ClampedSpan(text, a, b) ==
    IF Clamp(a, Len(text)) < Clamp(b, Len(text))
    THEN SubSeq(text, Clamp(a, Len(text)) + 1, Clamp(b, Len(text)))
    ELSE <<>>
\* the entries of seq at the indices in S, in order
RECURSIVE KeepAt(_, _)
KeepAt(seq, S) ==
    IF seq = <<>> THEN <<>>
    ELSE KeepAt(SubSeq(seq, 1, Len(seq) - 1), S)
         \o (IF Len(seq) \in S THEN <<seq[Len(seq)]>> ELSE <<>>)

\* C4: for raw citations with out-of-range integer offsets, citation mapping
\* does not fail and each such citation is either skipped or shown with the
\* answer text between its offsets clamped into [0, len(answer)]: the
\* citations of a synthesized result are, for some choice of skipped
\* out-of-range entries, the clamped spans of the raw citations that remain.
C4_OutOfRangeClampedOrSkipped ==
    pc = "Done" =>
        \E kept \in SUBSET DOMAIN raw_citations :
            /\ \A i \in DOMAIN raw_citations :
                   InBounds(raw_citations[i], Len(response.text)) => i \in kept
            /\ returned[1].citations =
                   KeepAt([i \in DOMAIN raw_citations |->
                             [text |-> ClampedSpan(response.text,
                                                   raw_citations[i].start,
                                                   raw_citations[i].end),
                              doc_ids |-> raw_citations[i].document_ids]], kept)

\* C5: the search backend is sent the augmented query, while the
\* synthesizer and the 'query' field of every returned result get the
\* original query.
C5_AugmentedOnlyForSearch ==
    /\ \A i \in DOMAIN search_log :
           search_log[i].query =
               IF str_contains(str_lower(query), MonitoringKeyword)
               THEN query \o MonitoringSuffix ELSE query
    /\ \A i \in DOMAIN synth_log : synth_log[i].query = query
    /\ \A i \in DOMAIN returned : returned[i].query = query

\* a call whose query was augmented for the search has synthesized an answer
C5_Witness ==
    /\ pc = "Done"
    /\ search_log[1].query # query
    /\ synth_log[1].query = query
    /\ returned[1].query = query

\* C6: in one chat call the search backend is called at most once and the
\* generative backend at most once, and the generative call is made only
\* after, never before, a search call that returned at least one chunk.
C6_CallCounts ==
    /\ Len(search_log) <= 1
    /\ Len(synth_log) <= 1
    /\ synth_log # <<>> =>
           /\ Len(search_log) = 1
           /\ ~search_log[1].raised
           /\ retrieved_docs # <<>>
C6_CallOrder ==
    /\ (synth_log' # synth_log /\ synth_log' # <<>>) =>
           (Len(search_log) = 1 /\ retrieved_docs # <<>> /\ search_log' = search_log)
    /\ (search_log' # search_log /\ search_log' # <<>>) => synth_log = <<>>
C6_NoRetries == []C6_CallCounts /\ [][C6_CallOrder]_vars

\* both backends have been called, once each
C6_Witness ==
    /\ pc = "Done"
    /\ Len(search_log) = 1
    /\ Len(synth_log) = 1

\* C7 as stated: every chat call ends in one of the four terminal states,
\* with exactly one PipelineResult, for every backend behaviour.
C7_AlwaysOneOfFourTerminals ==
    pc \in EndStates => (pc \in ReturnStates /\ Len(returned) = 1)

\* C7 amended: a chat call ends either in one of GreetingShortCircuit,
\* EmptyRetrievalFallback, EmptySelectionFallback, Done, having produced
\* exactly one PipelineResult {query, answer, citations}, or, exactly when
\* the generative backend call failed, by raising with no result; before the
\* end there is no result.
C7_TerminalOrRaised ==
    /\ pc \in ReturnStates =>
           /\ Len(returned) = 1
           /\ DOMAIN returned[1] = {"query", "answer", "citations"}
           /\ ~synth_failed
    /\ pc = "Raised" <=> synth_failed
    /\ pc \notin ReturnStates => returned = <<>>

\* calls have ended by a return and by a raise
C7_Witness ==
    /\ pc = "Raised"
    /\ returned = <<>>
    /\ Len(synth_log) = 1

\* C8: a result produced because retrieval was empty carries the "couldn't
\* find any relevant medical information about that" text, one produced
\* because selection was empty carries the other fallback text, both with
\* empty citations, and the two texts differ.
AboutThat ==
    <<"c","o","u","l","d","n","'","t"," ","f","i","n","d"," ","a","n","y"," ","r","e","l","e","v","a","n","t"," ","m","e","d","i","c","a","l"," ","i","n","f","o","r","m","a","t","i","o","n"," ","a","b","o","u","t"," ","t","h","a","t">>
C8_DistinctFallbacks ==
    /\ (pc \in ReturnStates /\ search_log # <<>> /\ retrieved_docs = <<>>) =>
           /\ returned = << [query |-> query, answer |-> EmptyRetrievalAnswer,
                             citations |-> <<>>] >>
           /\ str_contains(returned[1].answer, AboutThat)
    /\ (pc \in ReturnStates /\ retrieved_docs # <<>> /\ top_docs = <<>>) =>
           /\ returned = << [query |-> query, answer |-> EmptySelectionAnswer,
                             citations |-> <<>>] >>
           /\ ~str_contains(returned[1].answer, AboutThat)
    /\ EmptyRetrievalAnswer # EmptySelectionAnswer

\* the search succeeded with no hits and chat returned the first fallback
C8_Witness ==
    /\ pc = "EmptyRetrievalFallback"
    /\ ~search_failed
    /\ returned[1].answer = EmptyRetrievalAnswer

\* C9: rerank_chunks(query, documents, top_n) is the prefix of documents of
\* length min(top_n, len(documents)), for every top_n from 0 to one past the
\* number of documents, and the documents chat hands to the generative
\* backend are the first min(3, n) retrieved chunks in retrieval order.
C9_SelectionIsPrefix ==
    /\ \A n \in 0..(Len(retrieved_docs) + 1) :
           /\ Len(rerank_chunks(query, retrieved_docs, n)) <= n
           /\ rerank_chunks(query, retrieved_docs, n) =
                  SubSeq(retrieved_docs, 1, Min(n, Len(retrieved_docs)))
    /\ pc \in {"Synthesize", "Done", "Raised"} =>
           top_docs = SubSeq(retrieved_docs, 1, Min(3, Len(retrieved_docs)))
    /\ \A i \in DOMAIN synth_log :
           synth_log[i].documents =
               SubSeq(retrieved_docs, 1, Min(3, Len(retrieved_docs)))

\* more than three chunks were retrieved and three were synthesized from
C9_Witness ==
    /\ pc = "Done"
    /\ Len(retrieved_docs) > 3
    /\ Len(synth_log[1].documents) = 3

\* C10: the structured citations have the length and order of the raw
\* list, each paired with its raw citation's document ids, each whose
\* offsets are within bounds showing answer[start:end]; an absent list maps
\* to the empty sequence as the empty list does.
C10_CitationPassThrough ==
    pc = "Done" =>
        /\ Len(returned[1].citations) = Len(raw_citations)
        /\ \A i \in DOMAIN raw_citations :
               /\ returned[1].citations[i].doc_ids = raw_citations[i].document_ids
               /\ InBounds(raw_citations[i], Len(response.text)) =>
                      returned[1].citations[i].text =
                          SubSeq(response.text, raw_citations[i].start + 1,
                                 raw_citations[i].end)
        /\ response.citations.is_none => returned[1].citations = <<>>

\* a repeated within-bounds citation came through twice
C10_Witness ==
    /\ pc = "Done"
    /\ Len(raw_citations) = 2
    /\ raw_citations[1] = raw_citations[2]
    /\ InBounds(raw_citations[1], Len(response.text))
    /\ Len(returned[1].citations) = 2
    /\ returned[1].citations[1].text # <<>>

\* the role as a prompt line shows it
RoleLabel(role) ==
    IF role = RoleUser THEN <<"U","s","e","r">>
    ELSE <<"A","s","s","i","s","t","a","n","t">>
\* the history turns, each as "Role: content" followed by a line break
RECURSIVE TurnLines(_)
TurnLines(turns) ==
    IF turns = <<>> THEN <<>>
    ELSE RoleLabel(Head(turns).role) \o <<":"," ">> \o Head(turns).content
         \o <<"\n">> \o TurnLines(Tail(turns))

\* C11: the message answer_with_chat sends for a non-empty history is one
\* "Role: content" line per history turn, role capitalized, in the original
\* order, followed by "User: {query}" as the last line; for an empty or
\* absent history it is the query alone.
C11_CombinedPrompt ==
    \A i \in DOMAIN synth_log :
        synth_log[i].message =
            IF synth_log[i].history.is_none \/ synth_log[i].history.val = <<>>
            THEN synth_log[i].query
            ELSE TurnLines(synth_log[i].history.val)
                 \o <<"U","s","e","r",":"," ">> \o synth_log[i].query

\* a prompt was built from a history of two earlier turns, user then assistant
C11_Witness ==
    /\ synth_log # <<>>
    /\ ~synth_log[1].history.is_none
    /\ Len(synth_log[1].history.val) = 2
    /\ synth_log[1].history.val[1].role = RoleUser
    /\ synth_log[1].history.val[2].role = RoleAssistant
    /\ Len(synth_log[1].message) > Len(synth_log[1].query)

\* alphanumerics and spaces kept, trimmed, lower-cased, one character at a time
RECURSIVE KeepAlnumSpace(_)
KeepAlnumSpace(s) ==
    IF s = <<>> THEN <<>>
    ELSE (IF isalnum(Head(s)) \/ isspace(Head(s)) THEN <<Head(s)>> ELSE <<>>)
         \o KeepAlnumSpace(Tail(s))
RECURSIVE Trimmed(_)
Trimmed(s) ==
    IF s = <<>> THEN s
    ELSE IF isspace(s[1]) THEN Trimmed(Tail(s))
    ELSE IF isspace(s[Len(s)]) THEN Trimmed(SubSeq(s, 1, Len(s) - 1))
    ELSE s
NormalForm(s) ==
    LET t == Trimmed(KeepAlnumSpace(s))
    IN  [i \in DOMAIN t |-> IF t[i] \in Range(UpperChars)
                            THEN LowerChars[IndexOf(UpperChars, t[i])] ELSE t[i]]

\* C12: every variant of a greeting phrase got by changing letter case,
\* inserting punctuation anywhere and padding with whitespace is classified
\* as a greeting and short-circuits the call, and every query whose normal
\* form is not a greeting phrase is classified as not a greeting and does not.
C12_GreetingInsensitive ==
    InCall =>
        /\ query \in GreetingVariants =>
               (is_simple_greeting(query) /\ pc \in {"Start", "GreetingShortCircuit"})
        /\ NormalForm(query) \notin greetings =>
               (~is_simple_greeting(query) /\ pc # "GreetingShortCircuit")

\* a two-word greeting with a capital and an exclamation mark has
\* short-circuited
C12_Witness ==
    /\ pc = "GreetingShortCircuit"
    /\ query = <<"G","o","o","d"," ","m","o","r","n","i","n","g","!">>

\* word occurs in s when letter case is ignored
SameLetter(a, b) ==
    \/ a = b
    \/ \E k \in DOMAIN UpperChars :
           {a, b} = {UpperChars[k], LowerChars[k]}
OccursIgnoringCase(word, s) ==
    \E i \in 0..(Len(s) - Len(word)) :
        \A j \in DOMAIN word : SameLetter(s[i + j], word[j])
\* s ends with tail
EndsWith(s, tail) ==
    /\ Len(tail) <= Len(s)
    /\ SubSeq(s, Len(s) - Len(tail) + 1, Len(s)) = tail

\* C13: the query sent to retrieval depends on the query alone: a query that
\* contains "monitoring" in any letter case is sent with the focusing suffix
\* appended exactly once, and any other query is sent unchanged.
C13_AugmentOnMonitoring ==
    \A i \in DOMAIN search_log :
        LET sent == search_log[i].query
        IN  IF OccursIgnoringCase(MonitoringKeyword, query)
            THEN /\ EndsWith(sent, MonitoringSuffix)
                 /\ SubSeq(sent, 1, Len(sent) - Len(MonitoringSuffix)) = query
            ELSE sent = query

\* an upper-case MONITORING query was sent with the suffix, and a query that
\* already ended with the suffix gained exactly one more
C13_Witness ==
    /\ search_log # <<>>
    /\ EndsWith(query, MonitoringSuffix)
    /\ Len(search_log[1].query) = Len(query) + Len(MonitoringSuffix)
    /\ EndsWith(search_log[1].query, MonitoringSuffix \o MonitoringSuffix)
C13_WitnessUpperCase ==
    /\ search_log # <<>>
    /\ query = <<"M","O","N","I","T","O","R","I","N","G">>
    /\ search_log[1].query = query \o MonitoringSuffix

\* the label of the chunk at (one-based) place i of a list: "doc_" and the
\* digit of i - 1
PlaceLabel(i) == <<"d","o","c","_", DigitChars[i]>>
LabelledByPlace(docs) == \A i \in DOMAIN docs : docs[i].title = PlaceLabel(i)

\* C14: the chunks get_relevant_chunks returns are labelled doc_0, doc_1, ...
\* in backend rank order, so their ids are pairwise distinct, and the chunks
\* handed to the synthesizer are at most three, labelled doc_0 .. doc_{k-1}.
C14_ChunkIdsByRank ==
    /\ LabelledByPlace(retrieved_docs)
    /\ \A i, j \in DOMAIN retrieved_docs :
           i # j => retrieved_docs[i].title # retrieved_docs[j].title
    /\ LabelledByPlace(top_docs)
    /\ \A n \in DOMAIN synth_log :
           /\ Len(synth_log[n].documents) <= 3
           /\ LabelledByPlace(synth_log[n].documents)

\* four chunks doc_0 .. doc_3 were retrieved and doc_0 .. doc_2 synthesized from
C14_Witness ==
    /\ synth_log # <<>>
    /\ Len(retrieved_docs) = 4
    /\ retrieved_docs[4].title = <<"d","o","c","_","3">>
    /\ Len(synth_log[1].documents) = 3
    /\ synth_log[1].documents[3].title = <<"d","o","c","_","2">>

\* the result as the query and the backend responses of this call alone
\* determine it
ResultFromInputs ==
    IF NormalForm(query) \in greetings
    THEN [query |-> query, answer |-> GreetingAnswer, citations |-> <<>>]
    ELSE IF retrieved_docs = <<>>
    THEN [query |-> query, answer |-> EmptyRetrievalAnswer, citations |-> <<>>]
    ELSE [query |-> query,
          answer |-> response.text,
          citations |-> [i \in DOMAIN raw_citations |->
                           [text |-> py_slice(response.text, raw_citations[i].start,
                                              raw_citations[i].end),
                            doc_ids |-> raw_citations[i].document_ids]]]

\* C15: chat keeps no state between calls: no step changes a field of the
\* chatbot object, a running call changes neither its query nor the history
\* it was given, and the result of a call is determined by its query and the
\* backend responses of that call, whatever calls came before.
C15_NoStateKept ==
    /\ chatbot = [compass_client |-> "CompassClient", co |-> "CohereClient",
                  index_name |-> index_name]
    /\ pc \in ReturnStates => returned = << ResultFromInputs >>
C15_Frame ==
    /\ chatbot' = chatbot
    /\ (pc # "Idle" /\ pc' # "Idle") => (history' = history /\ query' = query)
C15_NoHiddenState == []C15_NoStateKept /\ [][C15_Frame]_vars

\* a call has synthesized an answer after an earlier call on the same
\* chatbot object whose retrieval failed
C15_Witness ==
    /\ pc = "Done"
    /\ caller = "api"
    /\ "retrieval" \in st_errors
    /\ ~search_failed

\* C16: chat never ends in EmptySelectionFallback: whenever retrieval gave a
\* non-empty list, selection with top_n = 3 gives a non-empty list, so no
\* chat call returns the "Please consider consulting a healthcare
\* professional" fallback and no assistant message carries it.
C16_EmptySelectionUnreachable ==
    /\ pc # "EmptySelectionFallback"
    /\ retrieved_docs # <<>> => rerank_chunks(query, retrieved_docs, 3) # <<>>
    /\ pc \in {"Synthesize", "Done", "Raised"} => top_docs # <<>>
    /\ \A i \in DOMAIN returned : returned[i].answer # EmptySelectionAnswer
    /\ \A i \in DOMAIN messages : messages[i].content # EmptySelectionAnswer

\* a single retrieved chunk survived selection
C16_Witness ==
    /\ pc = "Synthesize"
    /\ Len(retrieved_docs) = 1
    /\ Len(top_docs) = 1

\* C17: in a call made by the chat-input handler the history is never empty
\* and ends with the current prompt as a 'user' turn (the prompt is appended
\* to the session messages before the history is built), so the synthesizer
\* takes the history branch and the message sent to the generative backend
\* ends with "User: {prompt}" twice, as the last history line and as the
\* appended query.
C17_PromptTwice ==
    (caller = "ui" /\ InCall) =>
        /\ messages # <<>>
        /\ messages[Len(messages)] = [role |-> RoleUser, content |-> query]
        /\ ~history.is_none
        /\ history.val # <<>>
        /\ history.val[Len(history.val)] = [role |-> RoleUser, content |-> query]
        /\ \A i \in DOMAIN synth_log :
               /\ synth_log[i].message # query
               /\ EndsWith(synth_log[i].message,
                           <<"U","s","e","r",":"," ">> \o query
                           \o <<"\n","U","s","e","r",":"," ">> \o query)

\* the first prompt of a session was synthesized from: its history is the
\* prompt alone and the message is the prompt line twice
C17_Witness ==
    /\ caller = "ui"
    /\ pc = "Done"
    /\ Len(history.val) = 1
    /\ synth_log[1].message =
           <<"U","s","e","r",":"," ">> \o query
           \o <<"\n","U","s","e","r",":"," ">> \o query

\* C18: each submission appends exactly one 'user' message, and the handler
\* then appends one 'assistant' message if chat returned a result and none if
\* chat raised, leaving the user message without a reply (so a later history
\* can hold consecutive 'user' turns); the message list otherwise only
\* changes by Clear Chat, which empties it.
C18_MessagesState ==
    /\ \A i \in DOMAIN messages : messages[i].role \in {RoleUser, RoleAssistant}
    /\ (caller = "ui" /\ InCall) =>
           messages[Len(messages)] = [role |-> RoleUser, content |-> query]
C18_MessagesStep ==
    /\ messages' # messages =>
           \/ /\ pc = "Idle"
              /\ pc' = "Start"
              /\ caller' = "ui"
              /\ messages' = Append(messages, [role |-> RoleUser, content |-> query'])
           \/ /\ caller = "ui"
              /\ pc \in ReturnStates
              /\ pc' = "Idle"
              /\ messages' = Append(messages,
                                    [role |-> RoleAssistant,
                                     content |-> returned[1].answer,
                                     citations |-> returned[1].citations])
           \/ /\ pc = "Idle"
              /\ pc' = "Idle"
              /\ messages' = <<>>
    /\ (pc = "Idle" /\ caller' = "ui") => Len(messages') = Len(messages) + 1
    /\ (caller = "ui" /\ pc \in ReturnStates) => Len(messages') = Len(messages) + 1
    /\ (caller = "ui" /\ pc = "Raised") => messages' = messages
C18_MessagesGrowth == []C18_MessagesState /\ [][C18_MessagesStep]_vars

\* after a failed call the next submission's history holds two 'user' turns
\* in a row
C18_Witness ==
    /\ caller = "ui"
    /\ InCall
    /\ Len(history.val) >= 2
    /\ history.val[Len(history.val) - 1].role = RoleUser
    /\ history.val[Len(history.val)].role = RoleUser
====
